---- MODULE Spec2Model ----
(***************************************************************************)
(* Model of the desktop viewer's stream lifecycle                          *)
(* (src/subsciber/stream_subscriber.py, class Video).                      *)
(*                                                                         *)
(* Two threads share the Video object without any lock:                    *)
(*   - the UI thread, which runs open_stream, close_stream,                *)
(*     start_recording and stop_recording one call at a time (pc_ui);      *)
(*   - the bus watcher, pipeline_bus_check, which pops one notification    *)
(*     at a time from the pipeline's bus and reacts to it (pc_bus).        *)
(* One step of the model is one Python statement that reads or writes      *)
(* shared state (self.state, self.is_recording, a pipeline.set_state       *)
(* command); a condition is evaluated atomically.  Statements that touch   *)
(* only thread-local data are folded into the neighbouring step.           *)
(* reconnecting_counter (lines 972, 984, 991, ...) only feeds log          *)
(* messages and is never compared, so it is not part of the state.         *)
(* The media framework is the environment: while the pipeline is           *)
(* commanded to PLAYING it may post any notification the watcher filters   *)
(* for; factory, link and state-change calls may fail or raise.            *)
(***************************************************************************)
EXTENDS Integers, Sequences, FiniteSets, TLC

\* ---------------------------------------------------------------- bounds
\* Capacity of the bus queue (messages posted and not yet popped).
MaxBus == 1
\* Cap of timeout_counter (it can pass the threshold when a stream is
\* reopened before any notification is handled in CLOSE or OPEN).
MaxCounter == 12
\* Number of configured stream URLs (indices 1..NumURLs).
NumURLs == 2
\* Longest "urls" list of a configuration file.
MaxUrls == 2
\* Number of distinct well-formed stream entries ({name, url} pairs).
NumStreams == 2
\* Ports a publisher is given besides the two protocol defaults: 1..MaxOtherPort.
MaxOtherPort == 2
\* Most entries of the dashboards directory.
MaxFiles == 3
\* Most launches of gst-launch-1.0 by one publisher run.
MaxLaunches == 3

\* ------------------------------------------------------ program constants
\* `if timeout_counter > 10` (line 996)
RetryThreshold == 10

\* `args.port = 1935` (video-publisher.py line 388)
RtmpDefaultPort == 1935
\* `args.port = 8000` (video-publisher.py line 391)
UdpDefaultPort == 8000
\* `MAX_WAIT = 60` (load-dashboard.py line 18)
MAX_WAIT == 60
\* `RETRY_INTERVAL = 2` (load-dashboard.py line 19)
RETRY_INTERVAL == 2

\* The exit status of a process that has not ended.
Running == -1

STATE_CLOSE == "CLOSE"
STATE_CONNECTING == "CONNECTING"
STATE_OPEN == "OPEN"
VideoState == {STATE_CLOSE, STATE_CONNECTING, STATE_OPEN}

\* The recording branch, in link order: queue -> h264parse -> mux -> filesink.
Elems == {"queue", "h264parse", "mux", "sink"}
\* "none": reference is None; "made": created, not yet in the pipeline;
\* "NULL" / "PLAYING": in the pipeline, in that element state.
ElemSt == {"none", "made", "NULL", "PLAYING"}
NoBranch == [e \in Elems |-> "none"]

\* Notifications the watcher filters for (line 974).  hit: for a WARNING, the
\* text contains "Could not read from resource." (line 1024); for a
\* STATE_CHANGED, the source is rtsp-pipeline and the new state is PLAYING
\* (line 1035).
MsgTypes == {"ERROR", "EOS", "WARNING", "STATE_CHANGED"}
Messages ==
    {[type |-> "ERROR", hit |-> FALSE], [type |-> "EOS", hit |-> FALSE]}
    \cup [type : {"WARNING", "STATE_CHANGED"}, hit : BOOLEAN]
NoMsg == [type |-> "none", hit |-> FALSE]

VARIABLES
    state,                \* self.state
    is_recording,         \* self.is_recording
    rec,                  \* self.recording_queue/_h264parse/_mux/_sink
    recording_tee_pad,    \* self.recording_tee_pad is not None
    tee_pads,             \* request pads of the tee held for recording
    recording_file_path,  \* self.recording_file_path is not None
    location,             \* rtspsrc "location": 0 unset, else a URL index
    pipe_cmd,             \* last state commanded with pipeline.set_state
    bus,                  \* notifications posted and not yet popped
    msg,                  \* the notification the watcher popped
    timeout_counter,      \* local of pipeline_bus_check
    pc_bus,               \* the watcher's position
    pc_ui,                \* the UI thread's position
    ui_caller,            \* "close" while close_stream runs stop_recording
    ui_ret,               \* outcome of the last UI call: what start_recording
                          \* returned, "ignored" for a refused stop_recording,
                          \* "closed" once close_stream has returned
    main_playing          \* stop_recording's local: pipeline.get_state result

vars == <<state, is_recording, rec, recording_tee_pad, tee_pads,
          recording_file_path, location, pipe_cmd, bus, msg,
          timeout_counter, pc_bus, pc_ui, ui_caller, ui_ret, main_playing>>

recvars == <<rec, recording_tee_pad, tee_pads, recording_file_path>>
busvars == <<bus, msg, timeout_counter, pc_bus>>
uivars == <<pc_ui, ui_caller, ui_ret, main_playing>>

\* ------------------------------------------- configuration files (JSON)
\* A JSON value as json.load returns it.  A dict is a function on Keys whose
\* missing keys hold JAbsent; "extra" stands for any key the default does not
\* know; window_x stands for the four window_* keys, which the code treats
\* alike.
Keys == {"urls", "url_index", "window_x", "extra"}
JAbsent == [t |-> "absent", n |-> 0, items |-> <<>>]
JNull == [t |-> "null", n |-> 0, items |-> <<>>]
JNum(n) == [t |-> "num", n |-> n, items |-> <<>>]
JList(l) == [t |-> "list", n |-> 0, items |-> l]
EmptyDict == [k \in Keys |-> JAbsent]

\* An item of a "urls" list: dict is isinstance(url_item, dict), name and url
\* say whether the dict has that key (line 1094); id tells entries apart.
Stream(i) == [dict |-> TRUE, name |-> TRUE, url |-> TRUE, id |-> i]
UrlItems ==
    {Stream(i) : i \in 1..NumStreams}
    \cup {u \in [dict : {TRUE}, name : BOOLEAN, url : BOOLEAN, id : {1}] :
             ~(u.name /\ u.url)}
    \cup {[dict |-> FALSE, name |-> FALSE, url |-> FALSE, id |-> 1]}
UrlLists(S, n) == UNION {[1..k -> S] : k \in 0..n}

\* The content of a configuration file: no file, text json.load rejects,
\* JSON that is not an object (a list, a number, a string, null), an object.
AbsentFile == [kind |-> "absent", obj |-> EmptyDict]
InvalidFile == [kind |-> "invalid", obj |-> EmptyDict]
OtherJsonFile == [kind |-> "other", obj |-> EmptyDict]
\* Mutant: a dump that loses the stream list.
ObjectFile_NoUrls(d) ==
    [kind |-> "object", obj |-> [d EXCEPT !["urls"] = JAbsent]]
\* An object as json.dump writes it (line 1114) and json.load reads it back
\* (line 1084).
ObjectFile(d) == [kind |-> "object", obj |-> d]

\* The state of the settings persistence, one record (the string "unused"
\* while the model follows another program of the repository).
VARIABLE conf
\* content of CONFIG_FILE (stream_subscriber.conf)
cfg_file == conf.cfg_file
\* content of DEFAULT_CONFIG_FILE
default_file == conf.default_file
\* the dict the last call that succeeded returned (load_settings) or wrote
\* (save_settings)
settings == conf.settings
\* the last settings call and how it ended
settings_op == conf.settings_op

settingsvars == <<conf>>

\* ------------------------------------------------------------ publishers
\* src/publisher/video-publisher.py (a capture device) and
\* src/publisher/old/publish-video-file.py (a video file).
\* The state of a publisher run, one record (the string "unused" while the
\* model follows another program of the repository).
VARIABLE pub
\* which publisher runs: "device" or "file"
pub_program == pub.program
\* args.protocol
pub_protocol == pub.protocol
\* the port given on the command line (or its default)
pub_port_arg == pub.port_arg
\* args.port
pub_port == pub.port
\* args.format and args.resolution (device publisher)
pub_format == pub.format
pub_resolution == pub.resolution
\* encoder plugins check_gstreamer_plugin finds
pub_plugins == pub.plugins
\* the pipeline description, one record per stage
pub_pipeline == pub.pipeline
\* position in main
pub_pc == pub.pc
\* args.loop (file publisher)
pub_loop == pub.loop
\* subprocess.run calls on gst-launch-1.0
pub_launches == pub.launches
\* how the last launch ended: "none", "eos" (return code 0), "failed"
\* (another return code), "launch_error" (subprocess.run raised),
\* "interrupt" (SIGINT or SIGTERM)
pub_last == pub.last
\* exit status of the process, Running until it ends
pub_exit_code == pub.exit_code

pubvars == <<pub>>

\* No publisher has been started.
PublisherIdle == pub = "unused"

\* ------------------------------------------------------------- utilities
\* The state of a run of src/metrics/load-dashboard.py, one record (the
\* string "unused" while the model follows another program).
VARIABLE dash
\* The state of a run of src/utils/clear_bucket.py, one record (the string
\* "unused" while the model follows another program).
VARIABLE clr

toolvars == <<dash, clr>>

\* No utility has been started.
ToolsIdle == dash = "unused" /\ clr = "unused"

\* Variables of the other programs of the repository, which no step of the
\* viewer's Video object touches.
othervars == <<settingsvars, pubvars, toolvars>>
ViewerOnly == conf' = conf /\ pub' = pub /\ dash' = dash /\ clr' = clr

\* No settings call is made.
SettingsIdle == conf = "unused"

\* State after Video.__init__ (lines 951-966) and __create_pipeline
\* (lines 165-173): closed, nothing recorded, pipeline never started.
VideoInit ==
    /\ state = STATE_CLOSE
    /\ is_recording = FALSE
    /\ rec = NoBranch
    /\ recording_tee_pad = FALSE
    /\ tee_pads = 0
    /\ recording_file_path = FALSE
    /\ location = 0
    /\ pipe_cmd = "NULL"
    /\ bus = <<>>
    /\ msg = NoMsg
    /\ timeout_counter = 0
    /\ pc_bus = "pop"
    /\ pc_ui = "idle"
    /\ ui_caller = "none"
    /\ ui_ret = "none"
    /\ main_playing = FALSE

Init == VideoInit /\ SettingsIdle /\ PublisherIdle /\ ToolsIdle

\* ------------------------------------------------------------ environment
\* The framework posts a notification on the bus of a started pipeline.
Post(m) ==
    /\ pipe_cmd = "PLAYING"
    /\ Len(bus) < MaxBus
    /\ bus' = Append(bus, m)
    /\ UNCHANGED <<state, is_recording, recvars, location, pipe_cmd, msg,
                   timeout_counter, pc_bus, uivars>>
    /\ ViewerOnly

PostAny == \E m \in Messages : Post(m)

\* ------------------------------------------------- pipeline_bus_check
\* What the watcher leaves alone in every step.
BusFrame ==
    UNCHANGED <<is_recording, recvars, location, uivars>> /\ ViewerOnly

\* Where the handler goes for a popped notification (lines 980, 1001, 1021,
\* 1031); the tests on the notification's own fields are decided here.
Dispatch(m) ==
    CASE m.type = "ERROR" -> "err_open"
      [] m.type = "EOS" -> "eos_open"
      [] m.type = "WARNING" /\ m.hit -> "warn_open"
      [] m.type = "STATE_CHANGED" /\ m.hit -> "sc_open"
      [] OTHER -> "pop"

\* line 974: bus.timed_pop_filtered blocks until a notification is there.
BusPop ==
    /\ pc_bus = "pop"
    /\ bus # <<>>
    /\ msg' = Head(bus)
    /\ bus' = Tail(bus)
    /\ pc_bus' = "reset"
    /\ UNCHANGED <<state, pipe_cmd, timeout_counter>>
    /\ BusFrame

\* lines 977-979: timeout_counter is cleared when the state is CLOSE or OPEN.
BusReset ==
    /\ pc_bus = "reset"
    /\ timeout_counter' =
          IF state \in {STATE_CLOSE, STATE_OPEN} THEN 0 ELSE timeout_counter
    /\ pc_bus' = Dispatch(msg)
    /\ msg' = NoMsg
    /\ UNCHANGED <<state, pipe_cmd, bus>>
    /\ BusFrame

\* One pipeline.set_state(cmd) of the watcher, at position from.
BusSetState(from, cmd, to) ==
    /\ pc_bus = from
    /\ pipe_cmd' = cmd
    /\ pc_bus' = to
    /\ UNCHANGED <<state, bus, msg, timeout_counter>>
    /\ BusFrame

\* A test of the watcher that only chooses where to go next.
BusGoto(from, to) ==
    /\ pc_bus = from
    /\ pc_bus' = to
    /\ UNCHANGED <<state, pipe_cmd, bus, msg, timeout_counter>>
    /\ BusFrame

\* self.__change_state(s) of the watcher (lines 95-105), at position from.
BusChangeState(from, s) ==
    /\ pc_bus = from
    /\ state' = s
    /\ pc_bus' = "pop"
    /\ UNCHANGED <<pipe_cmd, bus, msg>>
    /\ BusFrame

\* line 983: ERROR while OPEN restarts the graph, recording or not.
ErrChkOpen ==
    BusGoto("err_open", IF state = STATE_OPEN THEN "eo_null" ELSE "err_conn")
\* line 986
ErrOpenNull == BusSetState("eo_null", "NULL", "eo_play")
\* Mutant: a restart that shows the stream as connecting again.
ErrOpenPlay_Connecting ==
    /\ pc_bus = "eo_play"
    /\ pipe_cmd' = "PLAYING"
    /\ state' = STATE_CONNECTING
    /\ pc_bus' = "pop"
    /\ UNCHANGED <<bus, msg, timeout_counter>>
    /\ BusFrame
\* lines 987-988
ErrOpenPlay == BusSetState("eo_play", "PLAYING", "pop")

\* lines 989-991: ERROR while CONNECTING counts one more failure.
ErrChkConn ==
    /\ pc_bus = "err_conn"
    /\ IF state = STATE_CONNECTING
         THEN /\ timeout_counter < MaxCounter
              /\ timeout_counter' = timeout_counter + 1
              /\ pc_bus' = "ec_null"
         ELSE /\ timeout_counter' = timeout_counter
              /\ pc_bus' = "pop"
    /\ UNCHANGED <<state, pipe_cmd, bus, msg>>
    /\ BusFrame
\* line 993
ErrConnNull == BusSetState("ec_null", "NULL", "ec_play")
\* line 994
ErrConnPlay == BusSetState("ec_play", "PLAYING", "ec_chk")
\* Mutant: giving up on reaching the threshold instead of passing it.
ErrConnChk_AtThreshold ==
    BusGoto("ec_chk",
            IF timeout_counter >= RetryThreshold THEN "ec_giveup" ELSE "pop")
\* Mutant: a retry loop that never gives up.
ErrConnChk_NeverGivesUp == BusGoto("ec_chk", "pop")
\* line 996: the stream is given up once the counter has passed the threshold.
ErrConnChk ==
    BusGoto("ec_chk",
            IF timeout_counter > RetryThreshold THEN "ec_giveup" ELSE "pop")
\* line 998
ErrConnGiveUp == BusSetState("ec_giveup", "NULL", "ec_close")
\* lines 999-1000
ErrConnClose ==
    BusChangeState("ec_close", STATE_CLOSE) /\ UNCHANGED timeout_counter

\* line 1008 (line 1006 only logs): EOS while OPEN, or in any other state.
EosChkOpen ==
    BusGoto("eos_open", IF state = STATE_OPEN THEN "eos_rec" ELSE "eos_close")
\* line 1012: no restart while a recording is active.
EosChkRec == BusGoto("eos_rec", IF ~is_recording THEN "eos_null" ELSE "pop")
\* line 1013
EosNull == BusSetState("eos_null", "NULL", "eos_play")
\* lines 1014-1015
EosPlay == BusSetState("eos_play", "PLAYING", "pop")
\* line 1020: EOS while not OPEN closes the stream (no set_state).
EosClose ==
    BusChangeState("eos_close", STATE_CLOSE) /\ UNCHANGED timeout_counter

\* line 1025: "Could not read from resource." while OPEN restarts the graph.
WarnChkOpen ==
    BusGoto("warn_open", IF state = STATE_OPEN THEN "w_null" ELSE "pop")
\* line 1028
WarnNull == BusSetState("w_null", "NULL", "w_play")
\* lines 1029-1030
WarnPlay == BusSetState("w_play", "PLAYING", "pop")

\* lines 1035-1039: the pipeline reached PLAYING: counters cleared, state OPEN,
\* whatever the state was.
ReachedPlaying ==
    BusChangeState("sc_open", STATE_OPEN) /\ timeout_counter' = 0

BusStep ==
    \/ BusPop \/ BusReset
    \/ ErrChkOpen \/ ErrOpenNull \/ ErrOpenPlay
    \/ ErrChkConn \/ ErrConnNull \/ ErrConnPlay \/ ErrConnChk
    \/ ErrConnGiveUp \/ ErrConnClose
    \/ EosChkOpen \/ EosChkRec \/ EosNull \/ EosPlay \/ EosClose
    \/ WarnChkOpen \/ WarnNull \/ WarnPlay
    \/ ReachedPlaying

\* ------------------------------------------------------------ UI thread
\* What a UI step that touches no recording data leaves alone.
UiFrame ==
    UNCHANGED <<is_recording, recvars, busvars, main_playing>> /\ ViewerOnly

\* Where a finished stop_recording returns: into close_stream (line 230)
\* or to the event loop.
AfterStop == IF ui_caller = "close" THEN "c_null" ELSE "idle"

\* --- open_stream (lines 203-217)
\* Mutant: open_stream without the test of line 205.
OpenCheck_NoGuard(URL_index) ==
    /\ pc_ui = "idle"
    /\ ui_ret' = "none"
    /\ pc_ui' = "o_play"
    /\ location' = URL_index
    /\ UNCHANGED <<state, pipe_cmd, ui_caller>>
    /\ UiFrame
\* lines 205-213: ignored while OPEN; otherwise the source gets the URL.
OpenCheck(URL_index) ==
    /\ pc_ui = "idle"
    /\ ui_ret' = "none"
    /\ IF state = STATE_OPEN
         THEN /\ pc_ui' = "idle"
              /\ location' = location
         ELSE /\ pc_ui' = "o_play"
              /\ location' = URL_index
    /\ UNCHANGED <<state, pipe_cmd, ui_caller>>
    /\ UiFrame
\* line 215
OpenPlay ==
    /\ pc_ui = "o_play"
    /\ pipe_cmd' = "PLAYING"
    /\ pc_ui' = "o_state"
    /\ UNCHANGED <<state, location, ui_caller, ui_ret>>
    /\ UiFrame
\* line 217
OpenState ==
    /\ pc_ui = "o_state"
    /\ state' = STATE_CONNECTING
    /\ pc_ui' = "idle"
    /\ UNCHANGED <<pipe_cmd, location, ui_caller, ui_ret>>
    /\ UiFrame

\* --- close_stream (lines 219-233)
\* line 221: already closed.
CloseCheck ==
    /\ pc_ui = "idle"
    /\ ui_ret' = IF state = STATE_CLOSE THEN "closed" ELSE "none"
    /\ pc_ui' = IF state = STATE_CLOSE THEN "idle" ELSE "c_chk"
    /\ UNCHANGED <<state, pipe_cmd, location, ui_caller>>
    /\ UiFrame
\* line 224
CloseCheckOpen ==
    /\ pc_ui = "c_chk"
    /\ pc_ui' = IF state \in {STATE_OPEN, STATE_CONNECTING}
                  THEN "c_rec" ELSE "idle"
    /\ ui_ret' = IF state \in {STATE_OPEN, STATE_CONNECTING}
                   THEN ui_ret ELSE "closed"
    /\ UNCHANGED <<state, pipe_cmd, location, ui_caller>>
    /\ UiFrame
\* Mutant: close_stream that forgets the recording.
CloseStopRec_NoStop ==
    /\ pc_ui = "c_rec"
    /\ pc_ui' = "c_null"
    /\ UNCHANGED <<state, pipe_cmd, location, ui_caller, ui_ret>>
    /\ UiFrame
\* lines 227-229: an active recording is stopped first.
CloseStopRec ==
    /\ pc_ui = "c_rec"
    /\ IF is_recording
         THEN pc_ui' = "t_entry" /\ ui_caller' = "close"
         ELSE pc_ui' = "c_null" /\ ui_caller' = ui_caller
    /\ UNCHANGED <<state, pipe_cmd, location, ui_ret>>
    /\ UiFrame
\* line 230
CloseNull ==
    /\ pc_ui = "c_null"
    /\ pipe_cmd' = "NULL"
    /\ pc_ui' = "c_state"
    /\ UNCHANGED <<state, location, ui_caller, ui_ret>>
    /\ UiFrame
\* line 232
CloseState ==
    /\ pc_ui = "c_state"
    /\ state' = STATE_CLOSE
    /\ pc_ui' = "idle"
    /\ ui_caller' = "none"
    /\ ui_ret' = "closed"
    /\ UNCHANGED <<pipe_cmd, location>>
    /\ UiFrame

\* --- start_recording (lines 235-683)
\* Position of a stage in the branch (link order, and the order in which the
\* stages are set to PLAYING, lines 566-590).
Ord == [queue |-> 1, h264parse |-> 2, mux |-> 3, sink |-> 4]

\* What a step of start_recording or stop_recording that commands nothing
\* leaves alone.
RecFrame ==
    UNCHANGED <<state, location, pipe_cmd, busvars, ui_caller>> /\ ViewerOnly

\* Mutant: start_recording without the test of line 242.
StartCheck_NoRecGuard ==
    /\ pc_ui = "idle"
    /\ IF state # STATE_OPEN
         THEN /\ ui_ret' = "false"
              /\ pc_ui' = "idle"
              /\ UNCHANGED <<is_recording, recvars>>
         ELSE /\ ui_ret' = "none"
              /\ pc_ui' = "s_make"
              /\ IF recording_tee_pad \/ rec["queue"] # "none"
                   THEN /\ rec' = NoBranch
                        /\ recording_tee_pad' = FALSE
                        /\ tee_pads' = IF recording_tee_pad
                                         THEN tee_pads - 1 ELSE tee_pads
                   ELSE UNCHANGED <<rec, recording_tee_pad, tee_pads>>
              /\ is_recording' = FALSE
              /\ recording_file_path' = TRUE
    /\ main_playing' = main_playing
    /\ RecFrame
\* lines 238-285: refused unless OPEN and not recording; leftovers of an
\* earlier attempt are released and removed (lines 248-269); the file path
\* is chosen.
StartCheck ==
    /\ pc_ui = "idle"
    /\ IF state # STATE_OPEN \/ is_recording
         THEN /\ ui_ret' = "false"
              /\ pc_ui' = "idle"
              /\ UNCHANGED <<is_recording, recvars>>
         ELSE /\ ui_ret' = "none"
              /\ pc_ui' = "s_make"
              /\ IF recording_tee_pad \/ rec["queue"] # "none"
                   THEN /\ rec' = NoBranch
                        /\ recording_tee_pad' = FALSE
                        /\ tee_pads' = IF recording_tee_pad
                                         THEN tee_pads - 1 ELSE tee_pads
                   ELSE UNCHANGED <<rec, recording_tee_pad, tee_pads>>
              /\ is_recording' = FALSE
              /\ recording_file_path' = TRUE
    /\ main_playing' = main_playing
    /\ RecFrame

\* lines 287-359: the four stages are created; when a factory returns None
\* the call returns False and keeps the references it got.
StartMake ==
    /\ pc_ui = "s_make"
    /\ \E missing \in Elems \cup {"ok"} :
         /\ rec' = [e \in Elems |-> IF e = missing THEN "none" ELSE "made"]
         /\ IF missing = "ok"
              THEN pc_ui' = "s_link" /\ ui_ret' = ui_ret
              ELSE pc_ui' = "idle" /\ ui_ret' = "false"
    /\ UNCHANGED <<is_recording, recording_tee_pad, tee_pads,
                   recording_file_path, main_playing>>
    /\ RecFrame

\* lines 361-555: the stages are added to the pipeline, a request pad is taken
\* from the tee and the branch is linked.  No pad (394-402), a failed link
\* (417-555, pad released) or an exception (680-683) removes the stages and
\* returns False.
StartLink ==
    /\ pc_ui = "s_link"
    /\ \E outcome \in {"ok", "nopad", "nolink", "raise"} :
         IF outcome = "ok"
           THEN /\ rec' = [e \in Elems |-> "NULL"]
                /\ recording_tee_pad' = TRUE
                /\ tee_pads' = tee_pads + 1
                /\ pc_ui' = "s_play"
                /\ ui_ret' = ui_ret
           ELSE /\ rec' = NoBranch
                /\ UNCHANGED <<recording_tee_pad, tee_pads>>
                /\ pc_ui' = "idle"
                /\ ui_ret' = "false"
    /\ UNCHANGED <<is_recording, recording_file_path, main_playing>>
    /\ RecFrame

\* lines 557-616: the stages are set to PLAYING in link order.  A stage that
\* fails returns False at once (567-593), leaving the branch and the pad in
\* place; an exception removes the stages (680-683) but keeps the pad.
StartPlay ==
    /\ pc_ui = "s_play"
    /\ \E outcome \in Elems \cup {"ok", "raise"} :
         CASE outcome = "ok" ->
                /\ rec' = [e \in Elems |-> "PLAYING"]
                /\ pc_ui' = "s_commit"
                /\ ui_ret' = ui_ret
           [] outcome = "raise" ->
                /\ rec' = NoBranch
                /\ pc_ui' = "idle"
                /\ ui_ret' = "false"
           [] OTHER ->
                /\ rec' = [e \in Elems |->
                             IF Ord[e] < Ord[outcome] THEN "PLAYING" ELSE "NULL"]
                /\ pc_ui' = "idle"
                /\ ui_ret' = "false"
    /\ UNCHANGED <<is_recording, recording_tee_pad, tee_pads,
                   recording_file_path, main_playing>>
    /\ RecFrame

\* line 618
StartCommit ==
    /\ pc_ui = "s_commit"
    /\ is_recording' = TRUE
    /\ pc_ui' = "s_post"
    /\ UNCHANGED <<recvars, ui_ret, main_playing>>
    /\ RecFrame

\* lines 619-678: notification, logging, monitor thread; True is returned.
\* An exception here runs the handler of lines 680-683, which removes the
\* stages and returns False without clearing the flag.
StartPost ==
    /\ pc_ui = "s_post"
    /\ pc_ui' = "idle"
    /\ \/ ui_ret' = "true" /\ rec' = rec
       \/ ui_ret' = "false" /\ rec' = NoBranch
    /\ UNCHANGED <<is_recording, recording_tee_pad, tee_pads,
                   recording_file_path, main_playing>>
    /\ RecFrame

\* --- stop_recording (lines 685-886)
\* Positions of stop_recording inside its try block (lines 697-880) at which
\* the statement about to run may raise.
StopTryPcs == {"t_eos", "t_sink", "t_mux", "t_h264parse", "t_queue", "t_pad",
               "t_cleanup", "t_getstate", "t_chk", "t_a_null", "t_a_play",
               "t_a_verify", "t_b_null", "t_b_play"}

\* Mutant: stop_recording without the test of line 693.
StopCheck_NoGuard ==
    /\ pc_ui \in {"idle", "t_entry"}
    /\ pc_ui' = "t_eos"
    /\ ui_ret' = "none"
    /\ UNCHANGED <<is_recording, recvars, main_playing>>
    /\ RecFrame
\* lines 693-695: ignored (a warning is logged, the call returns) when no
\* recording is active.  Entered from the event loop or from close_stream
\* (line 229).
StopCheck ==
    /\ pc_ui \in {"idle", "t_entry"}
    /\ pc_ui' = IF is_recording THEN "t_eos"
                ELSE IF pc_ui = "idle" THEN "idle" ELSE AfterStop
    /\ ui_ret' = IF is_recording THEN "none" ELSE "ignored"
    /\ UNCHANGED <<is_recording, recvars, main_playing>>
    /\ RecFrame

\* lines 697-761: "saving" is signalled, EOS is sent into the queue of the
\* branch, and the file is polled until its size is stable or 5 s passed.
StopEos ==
    /\ pc_ui = "t_eos"
    /\ pc_ui' = "t_sink"
    /\ UNCHANGED <<is_recording, recvars, ui_ret, main_playing>>
    /\ RecFrame

\* wait_for_null_state (lines 769-790) for one stage: a stage that exists is
\* set to NULL and waited for.
StopNullStage(e, from, to) ==
    /\ pc_ui = from
    /\ rec' = [rec EXCEPT ![e] = IF @ = "none" THEN "none" ELSE "NULL"]
    /\ pc_ui' = to
    /\ UNCHANGED <<is_recording, recording_tee_pad, tee_pads,
                   recording_file_path, ui_ret, main_playing>>
    /\ RecFrame
\* Mutant: the queue is stopped where the file sink should be.
StopNullSink_QueueFirst == StopNullStage("queue", "t_sink", "t_mux")
\* line 793
StopNullSink == StopNullStage("sink", "t_sink", "t_mux")
\* line 794
StopNullMux == StopNullStage("mux", "t_mux", "t_h264parse")
\* line 795
StopNullParse == StopNullStage("h264parse", "t_h264parse", "t_queue")
\* lines 796-800
StopNullQueue == StopNullStage("queue", "t_queue", "t_pad")

\* lines 802-816: the tee pad is unlinked and released, before the stages
\* are removed.
StopReleasePad ==
    /\ pc_ui = "t_pad"
    /\ recording_tee_pad' = FALSE
    /\ tee_pads' = IF recording_tee_pad THEN tee_pads - 1 ELSE tee_pads
    /\ pc_ui' = "t_cleanup"
    /\ UNCHANGED <<is_recording, rec, recording_file_path, ui_ret, main_playing>>
    /\ RecFrame

\* _cleanup_recording_elements (lines 888-949): every stage still referenced
\* is forced to NULL, removed from the pipeline and forgotten.
StopCleanup ==
    /\ pc_ui = "t_cleanup"
    /\ rec' = NoBranch
    /\ pc_ui' = "t_getstate"
    /\ UNCHANGED <<is_recording, recording_tee_pad, tee_pads,
                   recording_file_path, ui_ret, main_playing>>
    /\ RecFrame

\* line 825: pipeline.get_state; a pipeline commanded to PLAYING may or may
\* not have reached it, one commanded to NULL has not.
StopGetState ==
    /\ pc_ui = "t_getstate"
    /\ main_playing' \in (IF pipe_cmd = "PLAYING" THEN BOOLEAN ELSE {FALSE})
    /\ pc_ui' = "t_chk"
    /\ UNCHANGED <<is_recording, recvars, ui_ret>>
    /\ RecFrame

\* lines 829-830, 864: only an OPEN stream is restarted; both branches of
\* line 830 restart it.
StopCheckOpen ==
    /\ pc_ui = "t_chk"
    /\ pc_ui' = IF state = STATE_OPEN
                  THEN (IF main_playing THEN "t_b_null" ELSE "t_a_null")
                  ELSE "t_flag"
    /\ main_playing' = FALSE
    /\ UNCHANGED <<is_recording, recvars, ui_ret>>
    /\ RecFrame

\* One pipeline.set_state(cmd) of stop_recording, at position from.
StopSetState(from, cmd, to) ==
    /\ pc_ui = from
    /\ pipe_cmd' = cmd
    /\ pc_ui' = to
    /\ UNCHANGED <<state, location, ui_caller, ui_ret>>
    /\ UiFrame
\* line 833 (pipeline found not PLAYING)
StopANull == StopSetState("t_a_null", "NULL", "t_a_play")
\* line 835
StopAPlay == StopSetState("t_a_play", "PLAYING", "t_a_verify")
\* lines 840-847: PLAYING is commanded once more unless it was reached.
StopAVerify ==
    \/ /\ pipe_cmd = "PLAYING"
       /\ StopSetState("t_a_verify", pipe_cmd, "t_flag")
    \/ StopSetState("t_a_verify", "PLAYING", "t_flag")
\* line 854 (pipeline found PLAYING: restarted all the same)
StopBNull == StopSetState("t_b_null", "NULL", "t_b_play")
\* line 856
StopBPlay == StopSetState("t_b_play", "PLAYING", "t_flag")

\* lines 867-870: only now is the flag cleared; "stopped" is signalled.
StopFlag ==
    /\ pc_ui = "t_flag"
    /\ is_recording' = FALSE
    /\ recording_file_path' = FALSE
    /\ pc_ui' = AfterStop
    /\ UNCHANGED <<rec, recording_tee_pad, tee_pads, ui_ret, main_playing>>
    /\ RecFrame

\* A statement of the try block raises: control goes to line 882.
StopRaise ==
    /\ pc_ui \in StopTryPcs
    /\ pc_ui' = "t_except"
    /\ main_playing' = FALSE
    /\ UNCHANGED <<is_recording, recvars, ui_ret>>
    /\ RecFrame

\* Mutant: an exception handler that leaves the flag set.
StopExcept_KeepFlag ==
    /\ pc_ui = "t_except"
    /\ rec' = NoBranch
    /\ pc_ui' = AfterStop
    /\ UNCHANGED <<is_recording, recording_tee_pad, tee_pads,
                   recording_file_path, ui_ret, main_playing>>
    /\ RecFrame
\* lines 882-886: the stages are removed and the flag is cleared.
StopExcept ==
    /\ pc_ui = "t_except"
    /\ rec' = NoBranch
    /\ is_recording' = FALSE
    /\ pc_ui' = AfterStop
    /\ UNCHANGED <<recording_tee_pad, tee_pads, recording_file_path, ui_ret,
                   main_playing>>
    /\ RecFrame

\* A step that executes sig_recording_changed.emit: "recording" (line 620),
\* "saving" (line 703), "stopped" (lines 868 and 886).
EmitsRecordingChanged ==
    \/ pc_ui = "s_post" /\ pc_ui' # "s_post"
    \/ pc_ui = "t_eos" /\ pc_ui' = "t_sink"
    \/ pc_ui = "t_flag" /\ pc_ui' # "t_flag"
    \/ pc_ui = "t_except" /\ pc_ui' # "t_except"

open_stream == \E URL_index \in 1..NumURLs : OpenCheck(URL_index)

UiStep ==
    \/ open_stream \/ OpenPlay \/ OpenState
    \/ CloseCheck \/ CloseCheckOpen \/ CloseStopRec \/ CloseNull \/ CloseState
    \/ StartCheck \/ StartMake \/ StartLink \/ StartPlay \/ StartCommit
    \/ StartPost
    \/ StopCheck \/ StopEos \/ StopNullSink \/ StopNullMux \/ StopNullParse
    \/ StopNullQueue \/ StopReleasePad \/ StopCleanup \/ StopGetState
    \/ StopCheckOpen \/ StopANull \/ StopAPlay \/ StopAVerify \/ StopBNull
    \/ StopBPlay \/ StopFlag \/ StopRaise \/ StopExcept

Next == PostAny \/ BusStep \/ UiStep

Spec == Init /\ [][Next]_vars

\* ------------------------------------------ a connection that keeps failing
\* The scenario of a stream whose graph never stays playing: the stream has
\* just been opened (open_stream(1) from the initial state has returned), the
\* framework keeps posting errors, and it may report PLAYING only as long as
\* no failure of the running attempt has been counted.  The user does not
\* interfere.  The watcher thread always gets to run (it is blocked only in
\* timed_pop_filtered), and an error that can be posted is posted.
ErrorMsg == [type |-> "ERROR", hit |-> FALSE]
PlayingMsg == [type |-> "STATE_CHANGED", hit |-> TRUE]

LiveInit ==
    /\ state = STATE_CONNECTING
    /\ is_recording = FALSE
    /\ rec = NoBranch
    /\ recording_tee_pad = FALSE
    /\ tee_pads = 0
    /\ recording_file_path = FALSE
    /\ location = 1
    /\ pipe_cmd = "PLAYING"
    /\ bus = <<>>
    /\ msg = NoMsg
    /\ timeout_counter = 0
    /\ pc_bus = "pop"
    /\ pc_ui = "idle"
    /\ ui_caller = "none"
    /\ ui_ret = "none"
    /\ main_playing = FALSE
    /\ SettingsIdle
    /\ PublisherIdle
    /\ ToolsIdle

PostError == Post(ErrorMsg)
PostPlayingBeforeFailure == timeout_counter = 0 /\ Post(PlayingMsg)

LiveBusStep ==
    \/ BusPop \/ BusReset
    \/ ErrChkOpen \/ ErrOpenNull \/ ErrOpenPlay
    \/ ErrChkConn \/ ErrConnNull \/ ErrConnPlay \/ ErrConnChk
    \/ ErrConnGiveUp \/ ErrConnClose
    \/ ReachedPlaying

LiveNext == PostError \/ PostPlayingBeforeFailure \/ LiveBusStep

LiveSpec ==
    /\ LiveInit
    /\ [][LiveNext]_vars
    /\ WF_vars(LiveBusStep)
    /\ WF_vars(PostError)

\* ------------------------------------------------- settings persistence
\* load_settings (lines 1049-1107) and save_settings (lines 1109-1117) of
\* src/subsciber/stream_subscriber.py, applied to every content the two
\* configuration files can have.  The bundled default file, when it parses,
\* is an object with the keys urls, url_index and window_*.

\* lines 1071-1078
FallbackDefaults ==
    [urls |-> JList(<<>>), url_index |-> JNum(0), window_x |-> JNull,
     extra |-> JAbsent]

\* lines 1061-1078: the parsed default file, else the built-in defaults.
DefaultSettings(df) == IF df.kind = "object" THEN df.obj ELSE FallbackDefaults

\* d.get(key, dflt)
Get(d, key, dflt) == IF d[key].t = "absent" THEN dflt ELSE d[key]

\* Mutant: no backfill.
Merge_NoBackfill(file_settings, default_settings) == file_settings
\* lines 1086-1088: keys the file lacks are filled in from the defaults.
Merge(file_settings, default_settings) ==
    [k \in Keys |-> IF file_settings[k].t = "absent"
                      THEN default_settings[k] ELSE file_settings[k]]

\* Mutant: an item with a url is kept whether or not it has a name.
ValidItem_UrlOnly(url_item) == url_item.dict /\ url_item.url
\* line 1094
ValidItem(url_item) == url_item.dict /\ url_item.url /\ url_item.name

\* lines 1090-1101
ValidateUrls(merged, default_settings) ==
    IF merged["urls"].t = "list"
      THEN LET valid_urls == SelectSeq(merged["urls"].items, ValidItem)
           IN  IF valid_urls # <<>>
                 THEN [merged EXCEPT !["urls"] = JList(valid_urls)]
                 ELSE [merged EXCEPT !["urls"] =
                                   Get(default_settings, "urls", JList(<<>>))]
      ELSE [merged EXCEPT !["urls"] =
                        Get(default_settings, "urls", JList(<<>>))]

\* lines 1080-1107 for the file content f: what the call returns, or that it
\* raised.  json.load of JSON that is not an object succeeds, and the merge
\* loop or the statement settings["urls"] = ... then raises TypeError, which
\* the handler of line 1103 (json.JSONDecodeError, IOError) does not catch.
LoadOutcome(f, df) ==
    CASE f.kind = "absent" ->
           [raised |-> FALSE, value |-> DefaultSettings(df)]
      [] f.kind = "invalid" ->
           [raised |-> FALSE, value |-> DefaultSettings(df)]
      [] f.kind = "other" ->
           [raised |-> TRUE, value |-> EmptyDict]
      [] OTHER ->
           [raised |-> FALSE,
            value |-> ValidateUrls(Merge(f.obj, DefaultSettings(df)),
                                   DefaultSettings(df))]

\* The contents the active file is started with: any of the three that are
\* not objects, and every object whose keys are each absent or present, with
\* "urls" a list of any items or a value that is not a list.
FileUrls ==
    {JAbsent, JNum(0)} \cup {JList(l) : l \in UrlLists(UrlItems, MaxUrls)}
FileObjects ==
    [urls : FileUrls, url_index : {JAbsent, JNum(0), JNum(1)},
     window_x : {JAbsent, JNum(1)}, extra : {JAbsent, JNum(1)}]
Files ==
    {AbsentFile, InvalidFile, OtherJsonFile}
    \cup {ObjectFile(d) : d \in FileObjects}
\* The bundled default: missing, unreadable, or an object of the documented
\* shape whose stream list is well formed.
DefaultFiles ==
    {AbsentFile, InvalidFile}
    \cup {ObjectFile(d) :
            d \in [urls : {JList(<<>>), JList(<<Stream(1)>>)},
                   url_index : {JNum(0)}, window_x : {JNull},
                   extra : {JAbsent}]}
\* The dicts the viewer hands to save_settings (lines 1144-1146, 1328-1336):
\* a loaded dict whose stream list, index and geometry the user changed.
SavedConfigs ==
    [urls : {JList(l) :
               l \in UrlLists({Stream(i) : i \in 1..NumStreams}, MaxUrls)},
     url_index : {JNum(1)}, window_x : {JNum(1)},
     extra : {JAbsent, JNum(1)}]

\* load_settings (lines 1049-1107).  A missing active file is first copied
\* from the default (lines 1053-1058; the copy may fail with IOError, which
\* is logged).  A call that raises assigns nothing to the caller's variable.
load_settings ==
    \E copy_ok \in BOOLEAN :
      LET f == IF cfg_file.kind = "absent" /\ default_file.kind # "absent"
                  /\ copy_ok
                 THEN default_file ELSE cfg_file
          out == LoadOutcome(f, default_file)
      IN  /\ conf' =
                [cfg_file |-> f,
                 default_file |-> default_file,
                 settings |-> IF out.raised THEN settings ELSE out.value,
                 settings_op |->
                    IF out.raised THEN "load_raised"
                    ELSE IF settings_op = "saved" THEN "saved_loaded"
                    ELSE "loaded"]
          /\ UNCHANGED <<vars, pubvars, toolvars>>

\* save_settings (lines 1109-1117): json.dump into the file opened for
\* writing.  open may fail (file untouched) and the write may fail after the
\* file was truncated; both are IOError, logged and swallowed.
save_settings ==
    \E s \in SavedConfigs, io \in {"ok", "open_failed", "write_failed"} :
      /\ conf' =
            [cfg_file |-> CASE io = "ok" -> ObjectFile(s)
                            [] io = "open_failed" -> cfg_file
                            [] OTHER -> InvalidFile,
             default_file |-> default_file,
             settings |-> IF io = "ok" THEN s ELSE settings,
             settings_op |-> IF io = "ok" THEN "saved" ELSE "save_failed"]
      /\ UNCHANGED <<vars, pubvars, toolvars>>

SettingsInit ==
    /\ VideoInit
    /\ conf \in [cfg_file : Files, default_file : DefaultFiles,
                 settings : {EmptyDict}, settings_op : {"none"}]
    /\ PublisherIdle
    /\ ToolsIdle

SettingsNext == load_settings \/ save_settings

allvars == <<vars, othervars>>
SettingsSpec == SettingsInit /\ [][SettingsNext]_allvars

\* -------------------------------------------------- publishers: main
\* build_gstreamer_pipeline of video-publisher.py (lines 174-295) and of
\* publish-video-file.py (lines 27-133), and the part of main that leads to
\* it.  A pipeline description is a sequence of stages; a stage's fixed
\* properties (bitrate, sync, ...) are left out, a sink stage carries its port.
HwEncoders == {"nvv4l2h264enc", "nv264enc", "vaapih264enc", "v4l2h264enc"}
Protocols == {"udp", "rtmp"}
Formats == {"UYVY", "YUYV"}
Resolutions == {"1280x720", "640x480"}
Ports == {RtmpDefaultPort, UdpDefaultPort} \cup 1..MaxOtherPort

Stage(elem) == [elem |-> elem, port |-> 0]
SinkStage(elem, server_port) == [elem |-> elem, port |-> server_port]

\* Mutant: the VAAPI encoder is preferred over the NVIDIA ones.
SelectEncoder_VaapiFirst(available) ==
    IF "vaapih264enc" \in available THEN "vaapih264enc"
    ELSE IF "nvv4l2h264enc" \in available THEN "nvv4l2h264enc"
    ELSE IF "nv264enc" \in available THEN "nv264enc"
    ELSE IF "v4l2h264enc" \in available THEN "v4l2h264enc"
    ELSE "x264enc"
\* video-publisher.py lines 191-219 / publish-video-file.py lines 35-63: the
\* first plugin found, in this order, else the software encoder.
SelectEncoder(available) ==
    IF "nvv4l2h264enc" \in available THEN "nvv4l2h264enc"
    ELSE IF "nv264enc" \in available THEN "nv264enc"
    ELSE IF "vaapih264enc" \in available THEN "vaapih264enc"
    ELSE IF "v4l2h264enc" \in available THEN "v4l2h264enc"
    ELSE "x264enc"

\* The video_convert chosen with the encoder (same lines).
VideoConvert(encoder) ==
    CASE encoder \in {"nvv4l2h264enc", "nv264enc"} -> "nvvidconv"
      [] encoder = "vaapih264enc" -> "vaapipostproc"
      [] OTHER -> "videoconvert"

\* video-publisher.py lines 224-250: the source and the conversion stages.
\* The caps after v4l2src are the bare "video/x-raw": video_format and the
\* parsed width and height are not used.
DeviceFront(video_convert, video_format, resolution) ==
    <<Stage("v4l2src"), Stage("video/x-raw")>>
    \o CASE video_convert = "nvvidconv" ->
             <<Stage("nvvidconv"), Stage("video/x-raw(memory:NVMM),format=NV12")>>
          [] video_convert = "vaapipostproc" ->
             <<Stage("vaapipostproc"), Stage("video/x-raw,format=NV12")>>
          [] OTHER -> <<Stage("video/x-raw")>>

\* publish-video-file.py lines 67-93
FileFront(video_convert) ==
    <<Stage("filesrc"), Stage("decodebin")>>
    \o CASE video_convert = "nvvidconv" ->
             <<Stage("nvvidconv"), Stage("video/x-raw(memory:NVMM),format=NV12")>>
          [] video_convert = "vaapipostproc" ->
             <<Stage("vaapipostproc"), Stage("video/x-raw,format=NV12")>>
          [] OTHER ->
             <<Stage("videoconvert"), Stage("video/x-raw,format=I420")>>

\* video-publisher.py lines 275-291 / publish-video-file.py lines 117-129
Output(protocol, server_port) ==
    IF protocol = "rtmp"
      THEN <<Stage("flvmux"), SinkStage("rtmpsink", server_port)>>
      ELSE <<Stage("rtph264pay"), SinkStage("udpsink", server_port)>>

\* build_gstreamer_pipeline of the publisher named by program.
build_gstreamer_pipeline(program, available, server_port, video_format, resolution, protocol) ==
    LET encoder == SelectEncoder(available)
        front == IF program = "device"
                   THEN DeviceFront(VideoConvert(encoder), video_format,
                                    resolution)
                   ELSE FileFront(VideoConvert(encoder))
    IN  front \o <<Stage(encoder), Stage("h264parse")>>
              \o Output(protocol, server_port)

PubFrame == UNCHANGED <<vars, settingsvars, toolvars>>

\* main up to the port adjustment (video-publisher.py lines 363-383,
\* publish-video-file.py lines 188-200): the device or file must exist and
\* gst-inspect-1.0 must run, else the program exits with status 1.
PubPreflight ==
    /\ pub_pc = "start"
    /\ \/ pub' = [pub EXCEPT !.pc = "adjust"]
       \/ pub' = [pub EXCEPT !.pc = "exit", !.exit_code = 1]
    /\ PubFrame

\* Mutant: the port is used as given.
PubAdjustPort_AsGiven ==
    /\ pub_pc = "adjust"
    /\ pub' = [pub EXCEPT !.pc = "build"]
    /\ PubFrame
\* video-publisher.py lines 385-391, publish-video-file.py lines 202-208
PubAdjustPort ==
    /\ pub_pc = "adjust"
    /\ pub' =
          [pub EXCEPT
             !.port = IF pub_protocol = "rtmp" /\ pub_port = UdpDefaultPort
                        THEN RtmpDefaultPort
                      ELSE IF pub_protocol = "udp"
                              /\ pub_port = RtmpDefaultPort
                        THEN UdpDefaultPort
                      ELSE pub_port,
             !.pc = "build"]
    /\ PubFrame

\* video-publisher.py lines 393-402, publish-video-file.py lines 210-218
PubBuild ==
    /\ pub_pc = "build"
    /\ pub' =
          [pub EXCEPT
             !.pipeline =
                build_gstreamer_pipeline(pub_program, pub_plugins, pub_port,
                                         pub_format, pub_resolution,
                                         pub_protocol),
             !.pc = "built"]
    /\ PubFrame

\* publish-video-file.py lines 243-254 and 270-272, video-publisher.py lines
\* 426-430: gst-launch-1.0 is started with the built description, or
\* subprocess.run raises (lines 266-268, 279-281; 437-439).
PubLaunch ==
    /\ pub_pc = "built"
    /\ pub_launches < MaxLaunches
    /\ \E started \in BOOLEAN :
         pub' = IF started
                  THEN [pub EXCEPT !.launches = @ + 1, !.pc = "running"]
                  ELSE [pub EXCEPT !.launches = @ + 1,
                                   !.last = "launch_error",
                                   !.pc = "exit", !.exit_code = 1]
    /\ PubFrame

\* gst-launch-1.0 ends.  In loop mode (publish-video-file.py lines 254-262)
\* return code 0 goes round the loop and any other return code exits with
\* status 1; otherwise (lines 272-278, video-publisher.py lines 430-436) main
\* returns after return code 0 and exits with status 1 after another.
PubRunEnds ==
    /\ pub_pc = "running"
    /\ \E returncode \in {0, 1} :
         pub' = IF pub_loop /\ returncode = 0
                  THEN [pub EXCEPT !.last = "eos", !.pc = "built"]
                  ELSE [pub EXCEPT
                          !.last = IF returncode = 0 THEN "eos" ELSE "failed",
                          !.pc = "exit",
                          !.exit_code = IF returncode = 0 THEN 0 ELSE 1]
    /\ PubFrame

\* signal_handler (publish-video-file.py lines 235-240, video-publisher.py
\* lines 418-423): SIGINT or SIGTERM ends the process with status 0.
PubInterrupt ==
    /\ pub_pc \in {"built", "running"}
    /\ pub' = [pub EXCEPT !.last = "interrupt", !.pc = "exit",
                          !.exit_code = 0]
    /\ PubFrame
\* A publisher has parsed its command line: any protocol, port, format,
\* resolution and set of installed encoder plugins.  The file publisher has
\* no format or resolution option.
PublisherInit ==
    /\ VideoInit /\ SettingsIdle /\ ToolsIdle
    /\ pub \in [program : {"device", "file"}, protocol : Protocols,
                port_arg : Ports, port : Ports,
                format : Formats \cup {"none"},
                resolution : Resolutions \cup {"none"},
                plugins : SUBSET HwEncoders, pipeline : {<<>>},
                pc : {"start"}, loop : BOOLEAN, launches : {0},
                last : {"none"}, exit_code : {Running}]
    /\ pub_port = pub_port_arg
    /\ (pub_format = "none") = (pub_program = "file")
    /\ (pub_resolution = "none") = (pub_program = "file")
    /\ pub_loop => pub_program = "file"

PublisherNext ==
    \/ PubPreflight \/ PubAdjustPort \/ PubBuild
    \/ PubLaunch \/ PubRunEnds \/ PubInterrupt

PublisherSpec == PublisherInit /\ [][PublisherNext]_allvars

\* ------------------------------------------- load-dashboard.py (Grafana)
\* Fields of dash.
\* position in main: "wait" (wait_for_grafana), "ready", "import" (the loop
\* of lines 75-79), "done" (main returned), "exit" (sys.exit or a traceback)
dash_pc == dash.pc
\* health requests sent by wait_for_grafana
dash_polls == dash.polls
\* a health request has returned status 200
dash_healthy == dash.healthy
\* os.path.isdir(DASHBOARDS_DIR)
dash_dir == dash.dir
\* sorted(os.listdir(DASHBOARDS_DIR)): the kind of each entry, in name order
dash_files == dash.files
\* what became of each entry the loop has passed
dash_results == dash.results
\* POST requests sent to /api/dashboards/db
dash_uploads == dash.uploads
\* main's count
dash_count == dash.count
\* exit status of the process, Running until it ends
dash_exit_code == dash.exit_code


\* An entry of the directory: "dashboard" is a .json file holding a JSON
\* object, "invalid" a .json file that is not valid JSON, "non_object" a
\* .json file holding a JSON value that is not an object, "other" a name that
\* does not end with .json.
FileKinds == {"dashboard", "invalid", "non_object", "other"}
FileLists == UNION {[1..n -> FileKinds] : n \in 0..MaxFiles}

\* What urlopen on the health URL does (lines 26-32): status 200; any other
\* status or a URLError/OSError, which is caught; an exception of another
\* class, which is not.
PollOutcomes == {"200", "not_ready", "raised"}
\* What the POST does (lines 51-61): status 200/201 with a JSON body; an
\* HTTPError; any other exception; another success status.
UploadOutcomes == {"accepted", "rejected", "error", "other_status"}

\* import_dashboard (lines 37-62) on an entry of kind k whose upload ends as
\* outcome.  json.load (line 40) and content.pop (line 42) run before the try
\* of line 51: what they raise leaves the function.
import_dashboard(k, outcome) ==
    CASE k = "invalid" -> [raised |-> TRUE, value |-> FALSE, posted |-> FALSE]
      [] k = "non_object" ->
            [raised |-> TRUE, value |-> FALSE, posted |-> FALSE]
      [] OTHER -> [raised |-> FALSE, value |-> (outcome = "accepted"),
                   posted |-> TRUE]

DashFrame == UNCHANGED <<vars, settingsvars, pubvars, clr>>

\* Mutant: any answer of the health endpoint counts as ready.
DashPoll_AnyAnswer ==
    /\ dash_pc = "wait"
    /\ dash_polls < MAX_WAIT \div RETRY_INTERVAL
    /\ \E r \in PollOutcomes :
         dash' = [dash EXCEPT
                    !.polls = @ + 1,
                    !.healthy = (r = "200"),
                    !.pc = IF r = "raised" THEN "exit" ELSE "ready",
                    !.exit_code = IF r = "raised" THEN 1 ELSE @]
    /\ DashFrame
\* wait_for_grafana, one iteration of the loop of line 25.
DashPoll ==
    /\ dash_pc = "wait"
    /\ dash_polls < MAX_WAIT \div RETRY_INTERVAL
    /\ \E r \in PollOutcomes :
         dash' = [dash EXCEPT
                    !.polls = @ + 1,
                    !.healthy = (r = "200"),
                    !.pc = CASE r = "200" -> "ready"
                             [] r = "raised" -> "exit"
                             [] OTHER -> "wait",
                    !.exit_code = IF r = "raised" THEN 1 ELSE @]
    /\ DashFrame

\* line 34 and lines 67-69: the loop ran MAX_WAIT // RETRY_INTERVAL times.
DashGiveUp ==
    /\ dash_pc = "wait"
    /\ dash_polls = MAX_WAIT \div RETRY_INTERVAL
    /\ dash' = [dash EXCEPT !.pc = "exit", !.exit_code = 1]
    /\ DashFrame

\* lines 70-74
DashListDir ==
    /\ dash_pc = "ready"
    /\ dash' = IF dash_dir THEN [dash EXCEPT !.pc = "import"]
               ELSE [dash EXCEPT !.pc = "done", !.exit_code = 0]
    /\ DashFrame

\* lines 75-79, one entry of the directory.
DashImport ==
    /\ dash_pc = "import"
    /\ Len(dash_results) < Len(dash_files)
    /\ LET k == dash_files[Len(dash_results) + 1]
       IN  IF k = "other"
             THEN dash' = [dash EXCEPT !.results = Append(@, "skipped")]
             ELSE \E outcome \in UploadOutcomes :
                    LET r == import_dashboard(k, outcome)
                    IN  dash' =
                          IF r.raised
                            THEN [dash EXCEPT !.pc = "exit", !.exit_code = 1]
                            ELSE [dash EXCEPT
                                    !.results =
                                       Append(@, IF r.value THEN "imported"
                                                 ELSE "failed"),
                                    !.uploads = @ + 1,
                                    !.count = IF r.value THEN @ + 1 ELSE @]
    /\ DashFrame

\* line 80: the loop is over, main returns.
DashDone ==
    /\ dash_pc = "import"
    /\ Len(dash_results) = Len(dash_files)
    /\ dash' = [dash EXCEPT !.pc = "done", !.exit_code = 0]
    /\ DashFrame

\* The importer starts with any directory content.
DashboardInit ==
    /\ VideoInit /\ SettingsIdle /\ PublisherIdle /\ clr = "unused"
    /\ dash \in [pc : {"wait"}, polls : {0}, healthy : {FALSE},
                 dir : BOOLEAN, files : FileLists, results : {<<>>},
                 uploads : {0}, count : {0}, exit_code : {Running}]
    /\ dash_dir \/ dash_files = <<>>

DashboardNext ==
    DashPoll \/ DashGiveUp \/ DashListDir \/ DashImport \/ DashDone

DashboardSpec == DashboardInit /\ [][DashboardNext]_allvars
\* ------------------------------------------- clear_bucket.py (InfluxDB)
\* Fields of clr.
\* position: "start", "prompt" (line 131), "clear" (clear_bucket entered),
\* "health", "delete", "finally", "return" (line 144), "exit"
clr_pc == clr.pc
\* args.yes
clr_yes == clr.yes
\* stream_subscriber.yaml: "absent", "valid" or "unreadable"
clr_config == clr.config
\* where the settings in use come from: "none" until _load_config has run
clr_cfg == clr.cfg
\* how the prompt ended: "no" (not shown yet), "answered", "interrupt", "eof"
clr_asked == clr.asked
\* the line typed at the prompt, one character per element
clr_answer == clr.answer
\* the InfluxDBClient: "none", "open" or "closed"
clr_client == clr.client
\* the health check: "none", "pass", "fail" or "raised"
clr_health == clr.health
\* delete_api.delete calls made
clr_delete_calls == clr.delete_calls
\* what clear_bucket returned: "none", "true" or "false"
clr_result == clr.result
\* exit status of the process, Running until it ends
clr_exit_code == clr.exit_code

\* Lines the user may type at the prompt.
Answers ==
    {<<"y">>, <<"y", "e", "s">>, <<"Y">>, <<"Y", "E", "S">>,
     <<" ", "y", "e", "s", " ">>, <<"n">>, <<"N", "o">>, <<>>,
     <<"y", "e", "s", "s">>, <<"y", " ", "e", "s">>}

IsSpace(c) == c \in {" ", "\t"}
\* str.strip and str.lower (line 131)
RECURSIVE lstrip(_)
lstrip(s) == IF s # <<>> /\ IsSpace(Head(s)) THEN lstrip(Tail(s)) ELSE s
RECURSIVE rstrip(_)
rstrip(s) ==
    IF s # <<>> /\ IsSpace(s[Len(s)]) THEN rstrip(SubSeq(s, 1, Len(s) - 1))
    ELSE s
strip(s) == rstrip(lstrip(s))
LowerChar(c) ==
    CASE c = "Y" -> "y" [] c = "E" -> "e" [] c = "S" -> "s"
      [] c = "N" -> "n" [] c = "O" -> "o" [] OTHER -> c
lower(s) == [i \in 1..Len(s) |-> LowerChar(s[i])]

\* _load_config (lines 21-31): the file's values when it exists and loads,
\* the defaults otherwise.
load_config(config) == IF config = "valid" THEN "file" ELSE "defaults"

ClrFrame == UNCHANGED <<vars, settingsvars, pubvars, dash>>

\* lines 118-129
ClrStart ==
    /\ clr_pc = "start"
    /\ clr' = IF clr_yes THEN [clr EXCEPT !.pc = "clear"]
              ELSE [clr EXCEPT !.pc = "prompt",
                               !.cfg = load_config(clr_config)]
    /\ ClrFrame

\* Mutant: an empty answer confirms.
ClrPrompt_EmptyConfirms ==
    /\ clr_pc = "prompt"
    /\ \/ \E a \in Answers :
            LET response == lower(strip(a))
            IN  clr' = IF response \in {<<>>, <<"y">>, <<"y", "e", "s">>}
                         THEN [clr EXCEPT !.asked = "answered", !.answer = a,
                                          !.pc = "clear"]
                         ELSE [clr EXCEPT !.asked = "answered", !.answer = a,
                                          !.pc = "exit", !.exit_code = 0]
       \/ clr' = [clr EXCEPT !.asked = "interrupt", !.pc = "exit",
                             !.exit_code = 0]
       \/ clr' = [clr EXCEPT !.asked = "eof", !.pc = "exit", !.exit_code = 1]
    /\ ClrFrame
\* lines 130-138: the answer, a KeyboardInterrupt, or the end of the input
\* (EOFError, which no handler catches).
ClrPrompt ==
    /\ clr_pc = "prompt"
    /\ \/ \E a \in Answers :
            LET response == lower(strip(a))
            IN  clr' = IF response \in {<<"y">>, <<"y", "e", "s">>}
                         THEN [clr EXCEPT !.asked = "answered", !.answer = a,
                                          !.pc = "clear"]
                         ELSE [clr EXCEPT !.asked = "answered", !.answer = a,
                                          !.pc = "exit", !.exit_code = 0]
       \/ clr' = [clr EXCEPT !.asked = "interrupt", !.pc = "exit",
                             !.exit_code = 0]
       \/ clr' = [clr EXCEPT !.asked = "eof", !.pc = "exit", !.exit_code = 1]
    /\ ClrFrame

\* clear_bucket, lines 43-52: the configuration is read and the client is
\* created, or its constructor raises.
ClrConnect ==
    /\ clr_pc = "clear"
    /\ \E created \in BOOLEAN :
         clr' = IF created
                  THEN [clr EXCEPT !.cfg = load_config(clr_config),
                                   !.client = "open", !.pc = "health"]
                  ELSE [clr EXCEPT !.cfg = load_config(clr_config),
                                   !.result = "false", !.pc = "finally"]
    /\ ClrFrame

\* Mutant: the status of the health check is not looked at.
ClrHealth_AnyStatus ==
    /\ clr_pc = "health"
    /\ \E h \in {"pass", "fail", "raised"} :
         clr' = IF h \in {"pass", "fail"}
                  THEN [clr EXCEPT !.health = h, !.pc = "delete"]
                  ELSE [clr EXCEPT !.health = h, !.result = "false",
                                   !.pc = "finally"]
    /\ ClrFrame
\* lines 55-58 (and 85-87 when client.health raises)
ClrHealth ==
    /\ clr_pc = "health"
    /\ \E h \in {"pass", "fail", "raised"} :
         clr' = IF h = "pass"
                  THEN [clr EXCEPT !.health = h, !.pc = "delete"]
                  ELSE [clr EXCEPT !.health = h, !.result = "false",
                                   !.pc = "finally"]
    /\ ClrFrame

\* lines 63-83 (and 85-87 when the delete raises)
ClrDelete ==
    /\ clr_pc = "delete"
    /\ \E done \in BOOLEAN :
         clr' = [clr EXCEPT !.delete_calls = @ + 1,
                            !.result = IF done THEN "true" ELSE "false",
                            !.pc = "finally"]
    /\ ClrFrame

\* lines 89-91
ClrFinally ==
    /\ clr_pc = "finally"
    /\ clr' = [clr EXCEPT
                 !.client = IF @ = "open" THEN "closed" ELSE @,
                 !.pc = "return"]
    /\ ClrFrame

\* lines 141-144
ClrExit ==
    /\ clr_pc = "return"
    /\ clr' = [clr EXCEPT !.exit_code = IF clr_result = "true" THEN 0 ELSE 1,
                          !.pc = "exit"]
    /\ ClrFrame

\* The utility has parsed its command line.
ClearInit ==
    /\ VideoInit /\ SettingsIdle /\ PublisherIdle /\ dash = "unused"
    /\ clr \in [pc : {"start"}, yes : BOOLEAN,
                config : {"absent", "valid", "unreadable"}, cfg : {"none"},
                asked : {"no"}, answer : {<<>>}, client : {"none"},
                health : {"none"}, delete_calls : {0}, result : {"none"},
                exit_code : {Running}]

ClearNext ==
    \/ ClrStart \/ ClrPrompt \/ ClrConnect \/ ClrHealth \/ ClrDelete
    \/ ClrFinally \/ ClrExit

ClearSpec == ClearInit /\ [][ClearNext]_allvars
TypeOK ==
    /\ state \in VideoState
    /\ is_recording \in BOOLEAN
    /\ rec \in [Elems -> ElemSt]
    /\ recording_tee_pad \in BOOLEAN
    /\ tee_pads \in 0..1
    /\ recording_file_path \in BOOLEAN
    /\ location \in 0..NumURLs
    /\ pipe_cmd \in {"NULL", "PLAYING"}
    /\ bus \in Seq(Messages) /\ Len(bus) <= MaxBus
    /\ msg \in Messages \cup {NoMsg}
    /\ timeout_counter \in 0..MaxCounter
    /\ ui_caller \in {"none", "close"}
    /\ ui_ret \in {"none", "true", "false", "ignored", "closed"}
    /\ main_playing \in BOOLEAN

\* ================================================================ claims
\* A step of the watcher / of the UI thread (each changes its own position,
\* or is one of the calls that return at once).
BusMoved == pc_bus' # pc_bus
UiMoved == pc_ui' # pc_ui

\* ---- C1
\* C1: in every reachable state, under every interleaving of the watcher with
\* the UI calls, a recording is active only while the stream is OPEN.
C1_RecordingOnlyWhileOpen == is_recording => state = STATE_OPEN
\* A recording is active while close_stream is inside stop_recording and the
\* watcher is in the middle of handling an end-of-stream.
C1_Witness ==
    /\ is_recording
    /\ ui_caller = "close"
    /\ pc_ui = "t_flag"
    /\ pc_bus = "eos_rec"

\* ---- C2
\* C2: when close_stream finds a recording active, the recording has been
\* stopped (stages removed, flag false) when close_stream commands the
\* pipeline to NULL (line 230) and when it sets the state to CLOSE (line 232);
\* whenever close_stream returns, the state is CLOSE and the flag is false.
C2_CloseStopsRecordingFirst ==
    [][/\ (pc_ui \in {"c_null", "c_state"} /\ UiMoved /\ ui_caller = "close")
            => (~is_recording /\ rec = NoBranch)
       /\ (pc_ui = "c_null" /\ UiMoved) => (pipe_cmd' = "NULL" /\ ~is_recording)
       /\ (pc_ui \in {"c_chk", "c_state"} /\ pc_ui' = "idle")
            => (state' = STATE_CLOSE /\ ~is_recording')]_vars
\* close_stream has stopped a recording, commanded NULL, and is about to
\* set the state to CLOSE.
C2_Witness ==
    /\ pc_ui = "c_state"
    /\ ui_caller = "close"
    /\ state = STATE_OPEN
    /\ ~is_recording
    /\ pipe_cmd = "NULL"

\* ---- C3
\* C3 as stated: when the watcher has finished handling the tenth counted
\* error of a connection attempt, the state is CLOSE.
C3_TenthErrorCloses ==
    [][(pc_bus \in {"ec_chk", "ec_close"} /\ pc_bus' = "pop"
            /\ timeout_counter = RetryThreshold)
         => state' = STATE_CLOSE]_vars
\* C3 amended: while handling a counted error the watcher writes the state
\* only in its last step, and only when the count has passed ten: the handler
\* of the eleventh error commands the pipeline to NULL and ends by setting the
\* state to CLOSE; the handlers of the first ten leave the state alone.
C3_EleventhErrorCloses ==
    [][/\ (pc_bus \in {"err_conn", "ec_null", "ec_play", "ec_chk", "ec_giveup"}
             /\ BusMoved) => state' = state
       /\ (pc_bus \in {"ec_chk", "ec_close"} /\ pc_bus' = "pop")
            => IF timeout_counter > RetryThreshold
                 THEN state' = STATE_CLOSE /\ pc_bus = "ec_close"
                 ELSE state' = state /\ pc_bus = "ec_chk"
       /\ (pc_bus = "ec_giveup" /\ BusMoved)
            => (pipe_cmd' = "NULL" /\ pc_bus' = "ec_close")
       /\ (pc_bus = "ec_close") => timeout_counter > RetryThreshold]_vars
\* The eleventh error of an attempt has been counted, the pipeline stopped,
\* and the watcher is about to close the still connecting stream.
C3_Witness ==
    /\ pc_bus = "ec_close"
    /\ timeout_counter = RetryThreshold + 1
    /\ state = STATE_CONNECTING
    /\ pipe_cmd = "NULL"

\* ---- C4
\* C4: an error notification handled while the stream is OPEN and a recording
\* is active is only logged: the handler goes back to waiting without
\* commanding the pipeline.
C4_ErrorWhileRecordingOnlyLogged ==
    [][(pc_bus = "err_open" /\ BusMoved /\ state = STATE_OPEN /\ is_recording)
         => (pc_bus' = "pop" /\ pipe_cmd' = pipe_cmd)]_vars

\* ---- C5
\* C5: while is_recording is true (stop_recording's teardown included) the
\* end-of-stream handler never commands the pipeline and never writes the
\* state.
C5_NoEosRestartWhileRecording ==
    [][(pc_bus \in {"eos_open", "eos_rec", "eos_null", "eos_play", "eos_close"}
          /\ BusMoved /\ is_recording)
         => (pc_bus \notin {"eos_null", "eos_play"} /\ state' = state
             /\ pipe_cmd' = pipe_cmd)]_vars

\* ---- C6
\* C6: an error handled while OPEN is answered by NULL then PLAYING, and no
\* step of that handler changes the state: a stream that is OPEN stays OPEN.
C6_ErrorWhileOpenRestartsInPlace ==
    [][/\ (pc_bus = "err_open" /\ BusMoved /\ state = STATE_OPEN)
            => (pc_bus' = "eo_null" /\ state' = STATE_OPEN)
       /\ (pc_bus = "eo_null" /\ BusMoved)
            => (pipe_cmd' = "NULL" /\ pc_bus' = "eo_play" /\ state' = state)
       /\ (pc_bus = "eo_play" /\ BusMoved)
            => (pipe_cmd' = "PLAYING" /\ pc_bus' = "pop" /\ state' = state)]_vars
\* The watcher is between the NULL and the PLAYING of a restart, no recording
\* is active, no UI call is running, and the stream still shows OPEN.
C6_Witness ==
    /\ pc_bus = "eo_play"
    /\ pipe_cmd = "NULL"
    /\ state = STATE_OPEN
    /\ ~is_recording
    /\ pc_ui = "idle"

\* ---- C7  (checked under LiveSpec)
\* No reached-playing notification is queued or being handled.
NoPlayingInFlight ==
    /\ \A i \in 1..Len(bus) : bus[i] # PlayingMsg
    /\ msg # PlayingMsg
    /\ pc_bus # "sc_open"
\* C7 as stated: when errors keep arriving, the stream is eventually CLOSE,
\* wherever the failures began.
C7_EventuallyClosed == <>(state = STATE_CLOSE)
\* C7 amended: when errors keep arriving while the stream is CONNECTING and no
\* reached-playing notification arrives, the stream is eventually CLOSE;
\* errors handled while OPEN are retried without bound and never close it.
C7_ConnectingFailuresClose ==
    /\ (state = STATE_CONNECTING /\ timeout_counter > 0 /\ NoPlayingInFlight)
          ~> (state = STATE_CLOSE)
    /\ [][state = STATE_OPEN => state' = STATE_OPEN]_vars
\* The stream was given up after the failures of a connection attempt.
C7_Witness ==
    /\ state = STATE_CLOSE
    /\ timeout_counter = RetryThreshold + 1
    /\ pipe_cmd = "NULL"
    /\ pc_bus = "pop"

\* ---- C8
\* C8: open_stream called while CLOSE commands PLAYING and then sets the state
\* to CONNECTING; open_stream called while OPEN returns at once and changes
\* neither the state nor the source's URL nor the commanded pipeline state.
C8_OpenStream ==
    [][/\ (open_stream /\ state = STATE_OPEN)
            => (pc_ui' = "idle" /\ UNCHANGED <<state, location, pipe_cmd>>)
       /\ (open_stream /\ state = STATE_CLOSE)
            => (pc_ui' = "o_play" /\ location' \in 1..NumURLs)
       /\ (pc_ui = "o_play" /\ UiMoved)
            => (pipe_cmd' = "PLAYING" /\ pc_ui' = "o_state")
       /\ (pc_ui = "o_state" /\ UiMoved)
            => (state' = STATE_CONNECTING /\ pc_ui' = "idle")]_vars
\* open_stream was called while CLOSE, has commanded PLAYING and is about to
\* set the state to CONNECTING.
C8_Witness ==
    /\ pc_ui = "o_state"
    /\ state = STATE_CLOSE
    /\ pipe_cmd = "PLAYING"
    /\ location = 1

\* ---- C9
\* C9: the state becomes OPEN only from CONNECTING.
C9_OpenOnlyFromConnecting ==
    [][(state' = STATE_OPEN /\ state # STATE_OPEN)
         => state = STATE_CONNECTING]_vars

\* ---- C10
\* C10: start_recording called while the stream is not OPEN returns False and
\* touches neither the stages nor the tee pads; called while a recording is
\* active (the second of two calls in succession) it returns False and leaves
\* exactly one recording pad on the tee; a call that returns True leaves a
\* recording active with exactly one pad.
C10_StartRecordingGuards ==
    [][/\ (StartCheck /\ (state # STATE_OPEN \/ is_recording))
            => (ui_ret' = "false" /\ pc_ui' = "idle"
                /\ UNCHANGED <<rec, recording_tee_pad, tee_pads, is_recording>>)
       /\ (StartCheck /\ is_recording) => tee_pads' = 1
       /\ (ui_ret' = "true" /\ ui_ret # "true")
            => (is_recording' /\ tee_pads' = 1 /\ recording_tee_pad'
                /\ rec' = [e \in Elems |-> "PLAYING"])
       /\ tee_pads' <= 1]_vars
\* A second start_recording has just returned False while the first
\* recording runs on its single pad.
C10_Witness ==
    /\ pc_ui = "idle"
    /\ ui_ret = "false"
    /\ is_recording
    /\ rec = [e \in Elems |-> "PLAYING"]
    /\ tee_pads = 1
    /\ state = STATE_OPEN

\* ---- C11
\* C11: stop_recording called while no recording is active changes neither
\* the stream state, the flag, the stage references, the tee pad, the file
\* path nor the commanded pipeline state, emits no recording notification
\* and does not enter its exception handler.
C11_StopWithoutRecordingIsNoOp ==
    [][(StopCheck /\ ~is_recording)
         => /\ UNCHANGED <<state, is_recording, rec, recording_tee_pad,
                           tee_pads, recording_file_path, pipe_cmd>>
            /\ ~EmitsRecordingChanged
            /\ pc_ui' \notin StopTryPcs \cup {"t_except", "t_flag"}]_vars
\* stop_recording was refused on an OPEN stream that still holds what a
\* failed start_recording left behind.
C11_Witness ==
    /\ ui_ret = "ignored" /\ pc_ui = "idle"
    /\ state = STATE_OPEN /\ ~is_recording
    /\ recording_tee_pad /\ rec["queue"] # "none"

\* ---- C12
\* C12: whenever start_recording returns False after it began building the
\* branch (a stage was not created, a link failed, a stage did not start),
\* no stage reference is left and the tee pad has been released.
C12_FailedStartLeavesNothing ==
    [][(pc_ui \in {"s_make", "s_link", "s_play"} /\ pc_ui' = "idle"
          /\ ui_ret' = "false")
         => (rec' = NoBranch /\ ~recording_tee_pad' /\ tee_pads' = 0)]_vars

\* ---- C13
\* C13: when start_recording returns through its exception handler after the
\* flag was set (lines 618-683), or stop_recording returns through its
\* exception handler (lines 882-886), the flag is false, no stage is
\* referenced and the tee pad is released.
C13_ExceptionCleansEverything ==
    [][((pc_ui = "s_post" /\ ui_ret' = "false")
          \/ (pc_ui = "t_except" /\ UiMoved))
         => (~is_recording' /\ rec' = NoBranch /\ ~recording_tee_pad')]_vars

\* ---- C14
\* C14: stop_recording commands the main pipeline only on the path taken
\* when the pipeline was found not PLAYING after the teardown; when it was
\* found PLAYING, stop_recording goes on to clear the flag without a
\* set_state on the pipeline.
C14_RestartOnlyWhenNotPlaying ==
    [][/\ (pc_ui = "t_chk" /\ main_playing /\ UiMoved /\ pc_ui' # "t_except")
            => pc_ui' = "t_flag"
       /\ (pc_ui \in StopTryPcs /\ UiMoved /\ pipe_cmd' # pipe_cmd)
            => pc_ui \in {"t_a_null", "t_a_play", "t_a_verify"}]_vars

\* ---- C15
\* The step that stops stage e: the stages after e in link order are already
\* stopped, e is stopped by the step, the other stages are left as they were.
StoppedInReverse(e) ==
    /\ \A f \in Elems : Ord[f] > Ord[e] => rec[f] # "PLAYING"
    /\ rec'[e] # "PLAYING"
    /\ \A f \in Elems \ {e} : rec'[f] = rec[f]
\* The EOS step touches neither the main pipeline nor the branch's stages,
\* and the stages are then stopped sink, mux, parser, queue.
StopOrderPrefix ==
    /\ (pc_ui = "t_eos" /\ pc_ui' = "t_sink")
         => UNCHANGED <<rec, recording_tee_pad, pipe_cmd, bus>>
    /\ (pc_ui = "t_sink" /\ pc_ui' = "t_mux") => StoppedInReverse("sink")
    /\ (pc_ui = "t_mux" /\ pc_ui' = "t_h264parse") => StoppedInReverse("mux")
    /\ (pc_ui = "t_h264parse" /\ pc_ui' = "t_queue")
         => StoppedInReverse("h264parse")
    /\ (pc_ui = "t_queue" /\ pc_ui' = "t_pad") => StoppedInReverse("queue")
\* C15 as stated: EOS goes into the branch only, the stages are stopped in
\* reverse link order, and the tee pad is released only once every stage has
\* been removed from the pipeline.
C15_PadReleasedAfterRemoval ==
    [][/\ StopOrderPrefix
       /\ (pc_ui \in StopTryPcs /\ recording_tee_pad /\ ~recording_tee_pad')
            => rec = NoBranch]_vars
\* C15 amended: EOS goes into the branch only, the stages are stopped in
\* reverse link order, then the tee pad is released while the stopped stages
\* are still in the pipeline, and the stages are removed last.
C15_PadReleasedBeforeRemoval ==
    [][/\ StopOrderPrefix
       /\ (pc_ui = "t_pad" /\ pc_ui' = "t_cleanup")
            => /\ \A e \in Elems : rec[e] # "PLAYING"
               /\ rec' = rec
               /\ ~recording_tee_pad'
       /\ (pc_ui = "t_cleanup" /\ pc_ui' = "t_getstate")
            => (~recording_tee_pad /\ rec' = NoBranch)]_vars
\* The pad of a running recording has been released and its four stopped
\* stages are still in the pipeline.
C15_Witness ==
    /\ pc_ui = "t_cleanup" /\ is_recording
    /\ ~recording_tee_pad
    /\ \A e \in Elems : rec[e] = "NULL"

\* ---- C16
\* A load_settings has returned a dict read from an object in the file.
LoadedObject ==
    settings_op \in {"loaded", "saved_loaded"} /\ cfg_file.kind = "object"
\* The stream list of the defaults in force.
DefaultUrls == Get(DefaultSettings(default_file), "urls", JList(<<>>))
\* C16 as stated: for every list of well-formed entries, the empty list
\* included, save_settings followed by load_settings returns the saved list.
C16_RoundTripEveryList ==
    [][(settings_op = "saved" /\ settings_op' = "saved_loaded")
         => settings'["urls"] = settings["urls"]]_allvars
\* C16 amended: a saved list that is not empty is returned as it was saved,
\* in the same order; a saved empty list is returned as the default's list.
C16_RoundTripNonEmptyList ==
    [][(settings_op = "saved" /\ settings_op' = "saved_loaded")
         => settings'["urls"] = IF settings["urls"].items # <<>>
                                 THEN settings["urls"] ELSE DefaultUrls]_allvars
\* A list of two different entries was saved and loaded back.
C16_Witness ==
    /\ settings_op = "saved_loaded"
    /\ cfg_file = ObjectFile(settings)
    /\ Len(settings["urls"].items) = 2
    /\ settings["urls"].items[1] # settings["urls"].items[2]

\* ---- C17
\* C17: load_settings never raises, and for a file that is not valid JSON or
\* is valid JSON but not an object it returns the default structure.
C17_LoadNeverRaises ==
    /\ settings_op # "load_raised"
    /\ (settings_op = "loaded" /\ cfg_file.kind \in {"invalid", "other"})
         => settings = DefaultSettings(default_file)

\* ---- C18
\* C18: after loading an object, every key of the default is present, every
\* key the file lacks has the default's value, and every key the file has,
\* known to the default or not, keeps the file's value ("urls" excepted).
C18_MissingKeysBackfilled ==
    LoadedObject
      => \A k \in Keys :
           /\ DefaultSettings(default_file)[k].t # "absent"
                => settings[k].t # "absent"
           /\ cfg_file.obj[k].t = "absent"
                => settings[k] = DefaultSettings(default_file)[k]
           /\ (cfg_file.obj[k].t # "absent" /\ k # "urls")
                => settings[k] = cfg_file.obj[k]
\* A file that sets window_x and an unknown key but not url_index was loaded
\* with a bundled default present.
C18_Witness ==
    /\ LoadedObject /\ default_file.kind = "object"
    /\ cfg_file.obj["url_index"].t = "absent"
    /\ cfg_file.obj["window_x"] = JNum(1)
    /\ cfg_file.obj["extra"] = JNum(1)
    /\ settings["url_index"] = JNum(0)

\* ---- C19
\* Positions of the items of a list that are dicts with a name and a url.
KeptIndices(items) ==
    {i \in 1..Len(items) : items[i].dict /\ items[i].name /\ items[i].url}
\* The position of the j-th such item.
NthKept(items, j) ==
    CHOOSE i \in KeptIndices(items) :
      Cardinality({k \in KeptIndices(items) : k <= i}) = j
\* C19: the returned urls are exactly the file's items that are dicts with a
\* name and a url, in the file's order; when none is, or urls is not a list,
\* the returned urls are the default's list.
C19_UrlsFiltered ==
    LoadedObject
      => LET file_urls == cfg_file.obj["urls"]
             kept == KeptIndices(file_urls.items)
         IN  IF file_urls.t = "list" /\ kept # {}
               THEN /\ settings["urls"].t = "list"
                    /\ Len(settings["urls"].items) = Cardinality(kept)
                    /\ \A j \in 1..Cardinality(kept) :
                         settings["urls"].items[j]
                           = file_urls.items[NthKept(file_urls.items, j)]
               ELSE settings["urls"] = DefaultUrls
\* A list whose first item is malformed and whose second is well formed was
\* loaded: only the second is returned.
C19_Witness ==
    /\ LoadedObject
    /\ cfg_file.obj["urls"].t = "list"
    /\ Len(cfg_file.obj["urls"].items) = 2
    /\ KeptIndices(cfg_file.obj["urls"].items) = {2}
    /\ settings["urls"] = JList(<<cfg_file.obj["urls"].items[2]>>)

\* ---- C20
\* C20: in both publishers the port in force after the adjustment is 1935 for
\* rtmp given 8000, 8000 for udp given 1935, and the given port otherwise;
\* the built pipeline ends in the protocol's sink carrying that port.
C20_PortCorrected ==
    pub_pc \in {"build", "built"}
      => /\ (pub_protocol = "rtmp" /\ pub_port_arg = 8000) => pub_port = 1935
         /\ (pub_protocol = "udp" /\ pub_port_arg = 1935) => pub_port = 8000
         /\ ~(pub_protocol = "rtmp" /\ pub_port_arg = 8000)
              /\ ~(pub_protocol = "udp" /\ pub_port_arg = 1935)
              => pub_port = pub_port_arg
         /\ pub_pc = "built"
              => /\ pub_pipeline[Len(pub_pipeline)].port = pub_port
                 /\ pub_pipeline[Len(pub_pipeline)].elem
                      = (IF pub_protocol = "rtmp" THEN "rtmpsink"
                         ELSE "udpsink")
                 /\ \A i \in 1..(Len(pub_pipeline) - 1) :
                      pub_pipeline[i].port = 0
\* The file publisher, told rtmp with port 8000, built a pipeline whose
\* rtmpsink goes to port 1935.
C20_Witness ==
    /\ pub_pc = "built" /\ pub_program = "file"
    /\ pub_protocol = "rtmp" /\ pub_port_arg = 8000
    /\ pub_pipeline[Len(pub_pipeline)] = SinkStage("rtmpsink", 1935)

\* ---- C21
EncoderOrder == <<"nvv4l2h264enc", "nv264enc", "vaapih264enc", "v4l2h264enc">>
Encoders == HwEncoders \cup {"x264enc"}
\* The encoder the priority order gives for a set of available plugins.
FirstAvailable(available) ==
    LET found == {i \in 1..Len(EncoderOrder) : EncoderOrder[i] \in available}
    IN  IF found = {} THEN "x264enc"
        ELSE EncoderOrder[CHOOSE i \in found : \A j \in found : i <= j]
EncoderPositions ==
    {i \in 1..Len(pub_pipeline) : pub_pipeline[i].elem \in Encoders}
\* C21: in both publishers the built description has exactly one encoder
\* stage; it is the first available plugin in the order nvv4l2h264enc,
\* nv264enc, vaapih264enc, v4l2h264enc, or x264enc when none is available (a
\* function of the availability set alone); h264parse follows it, then flvmux
\* and rtmpsink for rtmp, rtph264pay and udpsink otherwise, and nothing more.
C21_EncoderSelection ==
    pub_pc = "built"
      => /\ Cardinality(EncoderPositions) = 1
         /\ \A i \in EncoderPositions :
              /\ pub_pipeline[i].elem = FirstAvailable(pub_plugins)
              /\ Len(pub_pipeline) = i + 3
              /\ pub_pipeline[i + 1].elem = "h264parse"
              /\ pub_pipeline[i + 2].elem
                   = (IF pub_protocol = "rtmp" THEN "flvmux" ELSE "rtph264pay")
              /\ pub_pipeline[i + 3].elem
                   = (IF pub_protocol = "rtmp" THEN "rtmpsink" ELSE "udpsink")
\* With nv264enc and v4l2h264enc installed (and neither nvv4l2h264enc nor
\* vaapih264enc) the device pipeline encodes with nv264enc.
C21_Witness ==
    /\ pub_pc = "built" /\ pub_program = "device"
    /\ pub_plugins = {"nv264enc", "v4l2h264enc"}
    /\ \E i \in 1..Len(pub_pipeline) : pub_pipeline[i].elem = "nv264enc"

\* ---- C22
\* C22: the description the device publisher builds constrains the source to
\* the requested format and resolution: the caps after v4l2src are not the
\* bare video/x-raw, and a run that differs only in the format or in the
\* resolution builds a different description.
C22_FormatAndResolutionHonoured ==
    (pub_pc = "built" /\ pub_program = "device")
      => /\ pub_pipeline[2].elem # "video/x-raw"
         /\ \A f \in Formats, r \in Resolutions :
              <<f, r>> # <<pub_format, pub_resolution>>
                => build_gstreamer_pipeline("device", pub_plugins, pub_port,
                                            f, r, pub_protocol)
                     # pub_pipeline

\* ---- C23  (checked under DashboardSpec)
\* C23: the importer isolates per-file failures: once the import loop has
\* begun the run ends by returning from main with every entry passed, a .json
\* file that is invalid or rejected counted as failed, and count the number of
\* imported entries; three files of which the second is invalid JSON, the
\* other two accepted, give count 2.
C23_PerFileFailuresIsolated ==
    (dash_healthy /\ dash_dir /\ dash_pc \in {"done", "exit"})
      => /\ dash_pc = "done"
         /\ Len(dash_results) = Len(dash_files)
         /\ \A i \in 1..Len(dash_files) :
              dash_files[i] \in {"invalid", "non_object"}
                => dash_results[i] = "failed"
         /\ dash_count
              = Cardinality({i \in 1..Len(dash_results) :
                               dash_results[i] = "imported"})
         /\ (/\ dash_files = <<"dashboard", "invalid", "dashboard">>
             /\ dash_uploads = 2
             /\ \A i \in {1, 3} : dash_results[i] = "imported")
              => dash_count = 2

\* ---- C24  (checked under DashboardSpec)
\* C24: no upload request is sent before a health request has returned 200;
\* at most MAX_WAIT / RETRY_INTERVAL = 30 health requests are sent and none
\* after the first 200; when 30 requests have been sent without a 200 the run
\* ends with exit status 1, and a run that ends without a 200 has uploaded
\* nothing.
C24_NoUploadBeforeHealthy ==
    [][/\ dash_uploads' > dash_uploads => dash_healthy
       /\ dash_polls' <= 30
       /\ dash_healthy => dash_polls' = dash_polls
       /\ (dash_pc = "wait" /\ dash_polls = 30)
            => (dash_pc' = "exit" /\ dash_exit_code' = 1)
       /\ (dash_pc' = "exit" /\ ~dash_healthy')
            => (dash_exit_code' = 1 /\ dash_uploads' = 0)
       /\ dash_pc' \in {"ready", "import", "done"} => dash_healthy']_allvars
\* The third health request returned 200 and a dashboard was then uploaded.
C24_Witness ==
    dash_polls = 3 /\ dash_healthy /\ dash_uploads = 1 /\ dash_count = 1

\* ---- C25  (checked under ClearSpec)
Confirmed == clr_asked = "answered" /\ clr_answer \in {<<"y">>, <<"y", "e", "s">>}
\* C25 as stated: the delete call is made only with --yes or when the line
\* typed at the prompt is y or yes; after any other line, or an interrupt at
\* the prompt, the run has ended with exit status 0, no client created and
\* no delete call made.
C25_DeleteOnlyAfterLiteralYes ==
    /\ clr_delete_calls > 0 => (clr_yes \/ Confirmed)
    /\ (clr_asked = "interrupt" \/ (clr_asked = "answered" /\ ~Confirmed))
         => /\ clr_pc = "exit" /\ clr_exit_code = 0
            /\ clr_client = "none" /\ clr_delete_calls = 0
\* The lines of Answers that read y or yes once surrounding blanks are removed
\* and capitals are lowered.
ReadsAsYes ==
    {<<"y">>, <<"y", "e", "s">>, <<"Y">>, <<"Y", "E", "S">>,
     <<" ", "y", "e", "s", " ">>}
\* C25 amended: the delete call is made only with --yes or when the line
\* typed reads y or yes after stripping and lowering; after any other line, or
\* an interrupt, the run has ended with exit status 0, no client created and
\* no delete call made; the end of the input at the prompt ends the run with
\* exit status 1, likewise without a client or a delete call.
C25_DeleteOnlyAfterConfirmation ==
    /\ clr_delete_calls > 0
         => (clr_yes \/ (clr_asked = "answered" /\ clr_answer \in ReadsAsYes))
    /\ (clr_asked = "interrupt"
          \/ (clr_asked = "answered" /\ clr_answer \notin ReadsAsYes))
         => /\ clr_pc = "exit" /\ clr_exit_code = 0
            /\ clr_client = "none" /\ clr_delete_calls = 0
    /\ clr_asked = "eof"
         => /\ clr_pc = "exit" /\ clr_exit_code = 1
            /\ clr_client = "none" /\ clr_delete_calls = 0
    /\ (clr_asked = "no" /\ ~clr_yes) => clr_pc \in {"start", "prompt"}
\* Without --yes the user typed YES and the delete call was made.
C25_Witness ==
    ~clr_yes /\ clr_answer = <<"Y", "E", "S">> /\ clr_delete_calls = 1

\* ---- C26  (checked under ClearSpec)
\* C26: the delete call is made only after the health check returned pass;
\* clear_bucket returns true only after a passed health check and a delete
\* call; when the health check fails or a step raises it returns false and
\* the process exits with status 1; once clear_bucket is left, a client that
\* was created is closed.
C26_DeleteOnlyWhenHealthy ==
    /\ clr_delete_calls > 0 => clr_health = "pass"
    /\ clr_delete_calls <= 1
    /\ clr_result = "true" => (clr_health = "pass" /\ clr_delete_calls = 1)
    /\ (clr_health \in {"fail", "raised"}) => clr_result = "false"
    /\ (clr_pc = "exit" /\ clr_result = "false") => clr_exit_code = 1
    /\ (clr_pc = "exit" /\ clr_result = "true") => clr_exit_code = 0
    /\ clr_pc \in {"return", "exit"} => clr_client # "open"
    /\ (clr_pc \in {"return", "exit"} /\ clr_health # "none")
         => clr_client = "closed"
\* The health check did not pass: nothing was deleted, the client was closed
\* and the process exited with status 1.
C26_Witness ==
    /\ clr_pc = "exit" /\ clr_health = "fail" /\ clr_delete_calls = 0
    /\ clr_client = "closed" /\ clr_exit_code = 1

\* ---- C27  (checked under PublisherSpec)
\* C27: in loop mode the runner starts gst-launch-1.0 again every time it
\* ends, after return code 0 and after any other return code alike, and the
\* process ends only when the user interrupts it.
C27_LoopRestartsAfterEveryEnd ==
    [][/\ (pub_loop /\ pub_pc = "running" /\ pub_last' \in {"eos", "failed"})
            => (pub_pc' = "built" /\ pub_exit_code' = Running)
       /\ (pub_loop /\ pub_pc = "running" /\ pub_pc' = "exit")
            => pub_last' = "interrupt"]_allvars

\* ---- C28
\* C28: whenever the state is CLOSE, the last state commanded to the pipeline
\* is NULL (open_stream, which commands PLAYING at line 215 before it sets
\* CONNECTING at line 217, is not counted while it is between the two).
C28_ClosedMeansStopped ==
    (state = STATE_CLOSE /\ pc_ui # "o_state") => pipe_cmd = "NULL"

\* ---- C29
\* C29: once close_stream has returned, and until the UI thread makes its
\* next call, no step of the watcher moves the state away from CLOSE or
\* commands the pipeline to PLAYING.
C29_ClosedStaysClosed ==
    [][(ui_ret = "closed" /\ pc_ui = "idle" /\ pc_ui' = "idle")
         => /\ state' = STATE_CLOSE
            /\ pipe_cmd' = "PLAYING" => pipe_cmd = "PLAYING"]_vars

\* ---- C30
\* C30: when open_stream moves the state from CLOSE to CONNECTING (line 217)
\* the watcher's timeout_counter is 0: the new attempt has the full retry
\* budget.
C30_FreshRetryBudget ==
    [][(pc_ui = "o_state" /\ state = STATE_CLOSE
          /\ state' = STATE_CONNECTING)
         => timeout_counter = 0]_vars
====
